---------------------------- MODULE Spec2Model ----------------------------
(***************************************************************************)
(* The simulator store (useStructuralSimulator / simulatorReducer), the    *)
(* damage arithmetic of the earthquake tick, the stiffness assembly of     *)
(* StructuralAnalysisService and the rigid-body integrator of              *)
(* CollapsePhysicsService.                                                 *)
(*                                                                         *)
(* Numbers are fixed point.                                                *)
(*   damageLevel, fatigueFactor : 1/10000        (1.0 = 10000)             *)
(*   stress                     : 1/1000 MPa                               *)
(*   intensity, frequency       : 1/10  (the sliders' step)                *)
(*   node coordinates           : 0.05 m                                   *)
(*   body position              : 0.00004 m  (centroid = (a + b) * 625)    *)
(*   body velocity              : 0.0025 m/s (one TIME_STEP of 0.016 s     *)
(*                                moves a body by exactly its velocity)    *)
(*   impactEnergy               : 1/320000 J (= mass * vy * vy)            *)
(*   beam width                 : 1/100                                     *)
(***************************************************************************)
EXTENDS Integers, Sequences, FiniteSets, TLC

VARIABLES structuralModel, earthquakeConfig, isSimulating, analysisResult,
          simulationResults, collapseSimulation, collapseTick, clock,
          selectedElement

vars == <<structuralModel, earthquakeConfig, isSimulating, analysisResult,
          simulationResults, collapseSimulation, collapseTick, clock,
          selectedElement>>

----------------------------------------------------------------------------
(* Bounds of the model *)

\* Earthquake ticks are counted up to MaxClock (the timestamp of a result).
MaxClock == 2
\* Results added to the rolling history of simulation results.
MaxResults == 12
\* Bodies and collision events kept in a collapse simulation.
MaxBodies == 2
MaxEvents == 3
\* A body's speed components, its depth below the ground and its horizontal
\* distance from where it started are tracked up to these values and
\* saturate there.
MaxSpeed == 300
MaxDepth == 300
MaxRange == 1000

----------------------------------------------------------------------------
(* Arithmetic helpers *)

Abs(x) == IF x < 0 THEN -x ELSE x
Min(a, b) == IF a < b THEN a ELSE b
Max(a, b) == IF a > b THEN a ELSE b
\* JavaScript number division of integers, truncated toward zero
TruncDiv(a, b) == IF a >= 0 THEN a \div b ELSE -((-a) \div b)
Clamp(x, lo, hi) == Max(lo, Min(hi, x))

\* The largest r in lo..hi with r * r <= n
SqrtBetween[n \in Nat, lo \in Nat, hi \in Nat] ==
    IF lo >= hi THEN lo
    ELSE LET mid == (lo + hi + 1) \div 2
         IN  IF mid * mid <= n THEN SqrtBetween[n, mid, hi]
             ELSE SqrtBetween[n, lo, mid - 1]
\* Math.sqrt, rounded down (for n below 2^30)
Sqrt(n) == SqrtBetween[n, 0, 32767]

Take(s, n) == IF Len(s) <= n THEN s ELSE SubSeq(s, 1, n)


----------------------------------------------------------------------------
(* Types (types/index.ts) *)

Triplet == Int \X Int \X Int

StructuralNode == [id : STRING, position : Triplet, type : STRING, mass : Int]

StructuralBeam ==
    [id : STRING, nodeIds : STRING \X STRING, material : STRING, length : Int,
     mass : Int, width : Int, height : Int, damageLevel : Int,
     fatigueFactor : Int, isBroken : BOOLEAN, currentStress : Int]

EarthquakeConfig == [intensity : Int, frequency : Int]

CollisionEvent ==
    [elementId : STRING, collidedWith : STRING, impactForce : Int,
     position : Triplet]

FallingElement ==
    [elementId : STRING, originalPosition : Triplet, currentPosition : Triplet,
     velocity : Triplet, mass : Int, isOnGround : BOOLEAN, impactEnergy : Int,
     hasCollided : BOOLEAN]

CollapseSimulation ==
    [fallingElements : Seq(FallingElement),
     collisionEvents : Seq(CollisionEvent), isActive : BOOLEAN]

----------------------------------------------------------------------------
(* Materials *)

MATERIALS ==
    [steel_S235   |-> [elasticModulus |-> 210000, yieldStrength |-> 235, ultimateStrength |-> 360],
     steel_S355   |-> [elasticModulus |-> 210000, yieldStrength |-> 355, ultimateStrength |-> 470],
     concrete_C25 |-> [elasticModulus |-> 30000,  yieldStrength |-> 25,  ultimateStrength |-> 30]]

HasMaterial(name) == name \in DOMAIN MATERIALS

\* value of an optional numeric field that has never been written
Undefined == -1
OrZero(x) == IF x = Undefined THEN 0 ELSE x

----------------------------------------------------------------------------
(* Earthquake stress and damage *)

\* StructuralAnalysisService.calculateRealisticBeamStress; Date.now() is far
\* beyond 1000 ms, so timeFactor = min(timestamp / 1000, 1) = 1.
calculateRealisticBeamStress(beam, config) ==
    IF ~HasMaterial(beam.material) THEN 0
    ELSE LET material == MATERIALS[beam.material]
             ys == material.yieldStrength
             frequency80 == Min(config.frequency, 80)
             baseStress == ys * 800
             \* ys * 1.2 * (intensity / 6) * min(frequency / 8, 1)
             dynamicStress == (ys * config.intensity * frequency80) \div 4
             fatigueStress == ys * 600
             totalStress == baseStress + dynamicStress + fatigueStress
             damageFactor == OrZero(beam.damageLevel)
             \* totalStress * (1 + damageFactor * 4)
             effectiveStress ==
                 totalStress + ((totalStress \div 100) * (damageFactor * 4)) \div 100
         IN  Min(effectiveStress, material.ultimateStrength * 1000)

\* stress / material.yieldStrength, in 1/10000
StressRatio(stress, material) == (stress * 10) \div material.yieldStrength

\* TickDamage without the damage already accumulated
TickDamageIncrementOnly(beam, stress) ==
    LET material == MATERIALS[beam.material]
        stressRatio == StressRatio(stress, material)
        damageIncrement == (Max(0, stressRatio - 3000) * 15) \div 100
    IN  Min(10000, damageIncrement)

\* The damage written by one earthquake tick of the hook for one beam:
\* stressRatio, damageIncrement, newDamage (useStructuralSimulator, interval
\* callback).
TickDamage(beam, stress) ==
    LET material == MATERIALS[beam.material]
        stressRatio == StressRatio(stress, material)
        damageIncrement == (Max(0, stressRatio - 3000) * 15) \div 100
    IN  Min(10000, OrZero(beam.damageLevel) + damageIncrement)

\* TickBroken with breakage only above the ultimate strength
TickBrokenAboveUltimate(beam, stress) ==
    stress > MATERIALS[beam.material].ultimateStrength * 1000

\* isBroken as the hook's tick computes it
TickBroken(beam, stress) ==
    \/ TickDamage(beam, stress) >= 5000
    \/ stress >= MATERIALS[beam.material].yieldStrength * 800

\* Does the tick dispatch UPDATE_BEAM_DAMAGE / UPDATE_BEAM_PROPERTIES for beam?
TickUpdates(beam, stress) ==
    /\ beam.currentStress # stress
    /\ HasMaterial(beam.material)
    /\ \/ Abs(OrZero(beam.damageLevel) - TickDamage(beam, stress)) > 100
       \/ beam.isBroken # TickBroken(beam, stress)

\* simulatorReducer UPDATE_BEAM_DAMAGE
UPDATE_BEAM_DAMAGE(beamList, beamId, damageLevel, isBroken) ==
    [i \in 1..Len(beamList) |->
        IF beamList[i].id = beamId
        THEN [beamList[i] EXCEPT !.damageLevel = damageLevel, !.isBroken = isBroken]
        ELSE beamList[i]]

\* simulatorReducer UPDATE_BEAM_PROPERTIES with updates = { currentStress }
UPDATE_BEAM_PROPERTIES(beamList, beamId, stress) ==
    [i \in 1..Len(beamList) |->
        IF beamList[i].id = beamId
        THEN [beamList[i] EXCEPT !.currentStress = stress]
        ELSE beamList[i]]

\* RESET_STRUCTURAL_DAMAGE that passes over the beams that are not broken
RESET_BROKEN_ONLY(beamList) ==
    [i \in 1..Len(beamList) |->
        IF beamList[i].isBroken
        THEN [beamList[i] EXCEPT !.damageLevel = 0, !.isBroken = FALSE,
                                 !.currentStress = 0, !.fatigueFactor = 0]
        ELSE beamList[i]]

\* simulatorReducer RESET_STRUCTURAL_DAMAGE
RESET_STRUCTURAL_DAMAGE(beamList) ==
    [i \in 1..Len(beamList) |->
        [beamList[i] EXCEPT !.damageLevel = 0, !.isBroken = FALSE,
                            !.currentStress = 0, !.fatigueFactor = 0]]

\* The dispatches of one earthquake tick, applied in the order of
\* Object.entries(beamStresses), i.e. of model.beams.
\* The beams after the dispatches of the tick for one beam of the snapshot
\* and the stress computed for it
TickDispatch[beamList \in Seq(StructuralBeam), beam \in StructuralBeam, stress \in Int] ==
    IF TickUpdates(beam, stress)
    THEN UPDATE_BEAM_PROPERTIES(
             UPDATE_BEAM_DAMAGE(beamList, beam.id,
                 TickDamage(beam, stress), TickBroken(beam, stress)),
             beam.id, stress)
    ELSE beamList

TickDispatches[beamList \in Seq(StructuralBeam), snapshot \in Seq(StructuralBeam), config \in EarthquakeConfig, i \in Nat] ==
    IF i > Len(snapshot) THEN beamList
    ELSE TickDispatches[
             TickDispatch[beamList, snapshot[i],
                          calculateRealisticBeamStress(snapshot[i], config)],
             snapshot, config, i + 1]

TickChangesModel(beamList, config) ==
    \E i \in 1..Len(beamList) :
        TickUpdates(beamList[i], calculateRealisticBeamStress(beamList[i], config))

----------------------------------------------------------------------------
(* StructuralAnalysisService.simulateEarthquake *)

\* updateBeamDamage without Math.min(1, ...) on newDamage and newFatigue
updateBeamDamageUnclamped(beam, currentStress, earthquakeIntensity) ==
    IF ~HasMaterial(beam.material) THEN beam
    ELSE LET material == MATERIALS[beam.material]
             stressRatio == StressRatio(currentStress, material)
             damageIncrement ==
                 (Max(0, stressRatio - 3000) * 8 * earthquakeIntensity) \div 600
             newDamage == OrZero(beam.damageLevel) + damageIncrement
             fatigueIncrement == (stressRatio * 4 * earthquakeIntensity) \div 600
             newFatigue == OrZero(beam.fatigueFactor) + fatigueIncrement
         IN  [beam EXCEPT
                !.currentStress = currentStress,
                !.damageLevel = newDamage,
                !.fatigueFactor = newFatigue,
                !.isBroken = \/ newDamage >= 5000
                             \/ currentStress >= material.yieldStrength * 800]

\* StructuralAnalysisService.updateBeamDamage: the beam of updatedBeams
updateBeamDamage(beam, currentStress, earthquakeIntensity) ==
    IF ~HasMaterial(beam.material) THEN beam
    ELSE LET material == MATERIALS[beam.material]
             stressRatio == StressRatio(currentStress, material)
             \* max(0, stressRatio - 0.3) * 0.8 * (intensity / 6)
             damageIncrement ==
                 (Max(0, stressRatio - 3000) * 8 * earthquakeIntensity) \div 600
             newDamage == Min(10000, OrZero(beam.damageLevel) + damageIncrement)
             \* stressRatio * 0.4 * (intensity / 6)
             fatigueIncrement == (stressRatio * 4 * earthquakeIntensity) \div 600
             newFatigue == Min(10000, OrZero(beam.fatigueFactor) + fatigueIncrement)
         IN  [beam EXCEPT
                !.currentStress = currentStress,
                !.damageLevel = newDamage,
                !.fatigueFactor = newFatigue,
                !.isBroken = \/ newDamage >= 5000
                             \/ currentStress >= material.yieldStrength * 800]

\* model.beams.map(beam => updateBeamDamage(beam, stress, intensity))
UpdatedBeams(beamList, config) ==
    [i \in 1..Len(beamList) |->
        updateBeamDamage(beamList[i],
                         calculateRealisticBeamStress(beamList[i], config),
                         config.intensity)]

\* Connected without the test of the node ids: every other beam
ConnectedToEveryBeam(beam, brokenBeam) ==
    beam.id # brokenBeam.id

\* beam.nodeIds.includes(a) || beam.nodeIds.includes(b)
Connected(beam, brokenBeam) ==
    /\ beam.id # brokenBeam.id
    /\ \E a \in 1..2, b \in 1..2 : beam.nodeIds[a] = brokenBeam.nodeIds[b]

\* newDamage of a connected beam: damageLevel + (intensity / 3) * 0.9
PropagatedDamage(connectedBeam, earthquakeIntensity) ==
    OrZero(connectedBeam.damageLevel) + earthquakeIntensity * 300

\* The progressive_collapse events for the beams connected to brokenBeam
RECURSIVE PropagationEvents(_, _, _, _, _)
PropagationEvents(beamList, brokenBeam, earthquakeIntensity, timestamp, i) ==
    IF i > Len(beamList) THEN <<>>
    ELSE (IF /\ Connected(beamList[i], brokenBeam)
             /\ PropagatedDamage(beamList[i], earthquakeIntensity) >= 3000
          THEN <<[type |-> "progressive_collapse", timestamp |-> timestamp,
                  elementId |-> beamList[i].id,
                  stressLevel |-> OrZero(beamList[i].currentStress),
                  damageLevel |-> PropagatedDamage(beamList[i], earthquakeIntensity),
                  cause |-> brokenBeam.id]>>
          ELSE <<>>)
         \o PropagationEvents(beamList, brokenBeam, earthquakeIntensity,
                              timestamp, i + 1)

RECURSIVE AllPropagationEvents(_, _, _, _, _)
AllPropagationEvents(beamList, brokenBeams, earthquakeIntensity, timestamp, k) ==
    IF k > Len(brokenBeams) THEN <<>>
    ELSE PropagationEvents(beamList, brokenBeams[k], earthquakeIntensity, timestamp, 1)
         \o AllPropagationEvents(beamList, brokenBeams, earthquakeIntensity,
                                 timestamp, k + 1)

\* simulateProgressiveCollapse: the damage events; it returns events only and
\* leaves the beams as they are
simulateProgressiveCollapse(beamList, earthquakeIntensity, timestamp) ==
    LET brokenBeams == SelectSeq(beamList, LAMBDA b : b.isBroken)
    IN  [k \in 1..Len(brokenBeams) |->
            [type |-> "element_broken", timestamp |-> timestamp,
             elementId |-> brokenBeams[k].id,
             stressLevel |-> OrZero(brokenBeams[k].currentStress),
             damageLevel |-> OrZero(brokenBeams[k].damageLevel),
             cause |-> "esfuerzo excedido"]]
        \o AllPropagationEvents(beamList, brokenBeams, earthquakeIntensity,
                                timestamp, 1)

\* Math.random(), in tenths
Randoms == {0, 5}

\* calculateMaxDisplacement: Math.random() * 50 + 10, in mm
calculateMaxDisplacement(random) == random * 5 + 10

RECURSIVE MaxCurrentStress(_, _)
MaxCurrentStress(beamList, n) ==
    IF n = 0 THEN 0
    ELSE Max(MaxCurrentStress(beamList, n - 1), OrZero(beamList[n].currentStress))

RECURSIVE SumYieldStrength(_, _)
SumYieldStrength(beamList, n) ==
    IF n = 0 THEN 0
    ELSE SumYieldStrength(beamList, n - 1)
         + (IF HasMaterial(beamList[n].material)
            THEN MATERIALS[beamList[n].material].yieldStrength ELSE 0)

\* x / 0 for x > 0, and 0 / 0
Infinity == 2000000000
NaN == -2000000000

\* generateRealisticRecommendations
generateRealisticRecommendations(beamList, damageEvents) ==
    LET brokenBeams == Len(SelectSeq(beamList, LAMBDA b : b.isBroken))
    IN  (IF 2 * brokenBeams > Len(beamList)
         THEN <<"estructura critica", "reforzar elementos principales">>
         ELSE IF 5 * brokenBeams > Len(beamList)
         THEN <<"dano significativo", "inspeccion urgente">>
         ELSE <<>>)
        \o (IF brokenBeams > 0 THEN <<"reemplazar elementos rotos">> ELSE <<>>)
        \o (IF \E i \in 1..Len(beamList) : OrZero(beamList[i].damageLevel) > 8000
            THEN <<"reforzar elementos con dano severo">> ELSE <<>>)
        \o (IF \E k \in 1..Len(damageEvents) :
                   damageEvents[k].type = "progressive_collapse"
            THEN <<"riesgo de colapso progresivo", "medidas de contencion">>
            ELSE <<>>)

\* analyzeStructureWithIntegrity; safetyFactor in 1/100, maxStress in
\* 1/1000 MPa
analyzeStructureWithIntegrity(beamList, damageEvents, random) ==
    LET maxStress == MaxCurrentStress(beamList, Len(beamList))
        sumYieldStrength == SumYieldStrength(beamList, Len(beamList))
        critical == SelectSeq(beamList, LAMBDA b : OrZero(b.damageLevel) > 7000)
    IN  [maxDisplacement |-> calculateMaxDisplacement(random),
         maxStress |-> maxStress,
         safetyFactor |->
             IF maxStress = 0
             THEN (IF sumYieldStrength = 0 THEN NaN ELSE Infinity)
             ELSE TruncDiv(sumYieldStrength * 100000, Len(beamList) * maxStress),
         criticalElements |-> [i \in 1..Len(critical) |-> critical[i].id],
         recommendations |-> generateRealisticRecommendations(beamList, damageEvents)]

\* The SimulationResult that simulateEarthquake returns for the value
\* timestamp of Date.now() and the value random of Math.random():
\* beamStresses by beam, foundationReactions by foundation (kN), analysis.
\* nodePositions, a sine of the timestamp, is left out.
SimulationResult(model, config, timestamp, random) ==
    LET updatedBeams == UpdatedBeams(model.beams, config)
        damageEvents ==
            simulateProgressiveCollapse(updatedBeams, config.intensity, timestamp)
    IN  [timestamp |-> timestamp,
         beamStresses |->
             [i \in 1..Len(model.beams) |->
                 calculateRealisticBeamStress(model.beams[i], config)],
         foundationReactions |->
             [f \in 1..Len(model.foundations) |->
                 <<random * 10 + 50, random * 10 + 50, random * 20 + 100>>],
         analysis |-> analyzeStructureWithIntegrity(updatedBeams, damageEvents, random)]

----------------------------------------------------------------------------
(* CollapsePhysicsService *)

\* GRAVITY[1] * TIME_STEP = -15.0 * 0.016 m/s, in velocity units
GRAVITY_STEP == -96
\* -2.25 m in position units
GROUND_LEVEL == -56250

\* nodes.find(n => n.id === id): the index of the first match, 0 when none
RECURSIVE FindNodeFrom(_, _, _)
FindNodeFrom(nodes, id, i) ==
    IF i > Len(nodes) THEN 0
    ELSE IF nodes[i].id = id THEN i
    ELSE FindNodeFrom(nodes, id, i + 1)
FindNode(nodes, id) == FindNodeFrom(nodes, id, 1)

NodesResolve(beam, nodes) ==
    FindNode(nodes, beam.nodeIds[1]) # 0 /\ FindNode(nodes, beam.nodeIds[2]) # 0

\* centerPosition of a beam whose nodes resolve, in position units
CenterPosition(beam, nodes) ==
    LET a == nodes[FindNode(nodes, beam.nodeIds[1])].position
        b == nodes[FindNode(nodes, beam.nodeIds[2])].position
    IN  <<(a[1] + b[1]) * 625, (a[2] + b[2]) * 625, (a[3] + b[3]) * 625>>

NewFallingElement(beam, nodes, velocity) ==
    [elementId |-> beam.id,
     originalPosition |-> CenterPosition(beam, nodes),
     currentPosition |-> CenterPosition(beam, nodes),
     velocity |-> velocity,
     mass |-> beam.mass * beam.length,
     isOnGround |-> FALSE,
     impactEnergy |-> 0,
     hasCollided |-> FALSE]

\* initializeCollapseSimulation; velocityOf[i] is the random initial velocity
\* drawn for beams[i]
RECURSIVE InitialFallingElements(_, _, _, _)
InitialFallingElements(beamList, nodes, velocityOf, i) ==
    IF i > Len(beamList) THEN <<>>
    ELSE (IF beamList[i].isBroken /\ NodesResolve(beamList[i], nodes)
          THEN <<NewFallingElement(beamList[i], nodes, velocityOf[i])>>
          ELSE <<>>)
         \o InitialFallingElements(beamList, nodes, velocityOf, i + 1)

\* initializeCollapseSimulation with a body for every beam, broken or not
initializeCollapseSimulationEveryBeam(beamList, nodes, velocityOf) ==
    LET fallingElements ==
            InitialFallingElements(
                [i \in 1..Len(beamList) |-> [beamList[i] EXCEPT !.isBroken = TRUE]],
                nodes, velocityOf, 1)
    IN  [fallingElements |-> fallingElements,
         collisionEvents |-> <<>>,
         isActive |-> Len(fallingElements) > 0]

initializeCollapseSimulation(beamList, nodes, velocityOf) ==
    LET fallingElements == InitialFallingElements(beamList, nodes, velocityOf, 1)
    IN  [fallingElements |-> fallingElements,
         collisionEvents |-> <<>>,
         isActive |-> Len(fallingElements) > 0]

\* The model's cap on what is tracked of a body
Saturate(element) ==
    [element EXCEPT
        !.velocity = <<Clamp(@[1], -MaxSpeed, MaxSpeed),
                       Clamp(@[2], -MaxSpeed, MaxSpeed),
                       Clamp(@[3], -MaxSpeed, MaxSpeed)>>,
        !.currentPosition =
            <<Clamp(@[1], element.originalPosition[1] - MaxRange,
                          element.originalPosition[1] + MaxRange),
              Max(@[2], GROUND_LEVEL - MaxDepth),
              Clamp(@[3], element.originalPosition[3] - MaxRange,
                          element.originalPosition[3] + MaxRange)>>]

\* newVelocity after gravity: velocity + GRAVITY * TIME_STEP
ApplyGravity(v) == <<v[1], v[2] + GRAVITY_STEP, v[3]>>

\* newVelocity after air resistance, for the velocity g after gravity and its
\* norm speed; airResistance * mass * TIME_STEP = 0.005 * mass * 0.016 m/s
ApplyAirResistance[g \in Triplet, speed \in Nat, mass \in Int] ==
    LET drag(c) == IF speed > 0 THEN TruncDiv(c * mass * 4, speed * 125) ELSE 0
    IN  <<g[1] - drag(g[1]), g[2] - drag(g[2]), g[3] - drag(g[3])>>

\* The position update and the ground contact, for the new velocity
ApplyVelocity[element \in FallingElement, newVelocity \in Triplet] ==
    LET p == element.currentPosition
        newPosition == <<p[1] + newVelocity[1], p[2] + newVelocity[2], p[3] + newVelocity[3]>>
        lands == newPosition[2] <= GROUND_LEVEL /\ ~element.isOnGround
    IN  Saturate(
        IF lands
        THEN [element EXCEPT
                !.currentPosition = <<newPosition[1], GROUND_LEVEL, newPosition[3]>>,
                \* groundFriction = 0.6
                !.velocity = <<TruncDiv(newVelocity[1] * 4, 10), 0,
                               TruncDiv(newVelocity[3] * 4, 10)>>,
                !.isOnGround = TRUE,
                !.impactEnergy = element.mass * newVelocity[2] * newVelocity[2]]
        ELSE [element EXCEPT !.currentPosition = newPosition,
                             !.velocity = newVelocity])

\* The norm of a velocity
Speed[g \in Triplet] == Sqrt(g[1] * g[1] + g[2] * g[2] + g[3] * g[3])

\* updateFallingElement that takes the impact energy again on every call for
\* a body on the ground
updateFallingElementEveryContact(element) ==
    LET updated ==
            ApplyVelocity[element,
                ApplyAirResistance[ApplyGravity(element.velocity),
                                   Speed[ApplyGravity(element.velocity)], element.mass]]
    IN  IF element.isOnGround
        THEN [updated EXCEPT !.impactEnergy =
                  element.mass * updated.velocity[2] * updated.velocity[2]]
        ELSE updated

\* updateFallingElement: gravity, air resistance, position, ground contact
updateFallingElement(element) ==
    ApplyVelocity[element,
        ApplyAirResistance[ApplyGravity(element.velocity),
                           Speed[ApplyGravity(element.velocity)], element.mass]]

DistanceSquared(p, q) ==
    (p[1] - q[1]) * (p[1] - q[1]) + (p[2] - q[2]) * (p[2] - q[2])
        + (p[3] - q[3]) * (p[3] - q[3])

\* collisionRadius = 0.5 m = 12500 position units
Collides(element, otherElement) ==
    /\ element.elementId # otherElement.elementId
    /\ \A c \in 1..3 :
          Abs(element.currentPosition[c] - otherElement.currentPosition[c]) < 12500
    /\ DistanceSquared(element.currentPosition, otherElement.currentPosition)
           < 12500 * 12500
    /\ ~element.hasCollided

\* calculateImpactForce, in units of (m1 + m2) * relativeSpeed^2 / 2
calculateImpactForce(element1, element2) ==
    (element1.mass + element2.mass)
        * DistanceSquared(element1.velocity, element2.velocity)

\* checkCollisions: the updated element against the elements of the snapshot
RECURSIVE checkCollisionsFrom(_, _, _)
checkCollisionsFrom(element, allElements, j) ==
    IF j > Len(allElements) THEN <<>>
    ELSE (IF Collides(element, allElements[j])
          THEN <<[elementId |-> element.elementId,
                  collidedWith |-> allElements[j].elementId,
                  impactForce |-> calculateImpactForce(element, allElements[j]),
                  position |-> element.currentPosition]>>
          ELSE <<>>)
         \o checkCollisionsFrom(element, allElements, j + 1)
checkCollisions(element, allElements) == checkCollisionsFrom(element, allElements, 1)

RECURSIVE FindBeamFrom(_, _, _)
FindBeamFrom(beamList, id, i) ==
    IF i > Len(beamList) THEN 0
    ELSE IF beamList[i].id = id THEN i
    ELSE FindBeamFrom(beamList, id, i + 1)
FindBeam(beamList, id) == FindBeamFrom(beamList, id, 1)

\* addNewFallingElements: one new body per collision event whose elementId
\* names a beam of the model that is not broken and whose nodes resolve
RECURSIVE addNewFallingElementsFrom(_, _, _, _, _)
addNewFallingElementsFrom(collisionEvents, beamList, nodes, velocity, k) ==
    IF k > Len(collisionEvents) THEN <<>>
    ELSE LET b == FindBeam(beamList, collisionEvents[k].elementId)
         IN  (IF b # 0 /\ ~beamList[b].isBroken /\ NodesResolve(beamList[b], nodes)
              THEN <<NewFallingElement(beamList[b], nodes, velocity)>>
              ELSE <<>>)
             \o addNewFallingElementsFrom(collisionEvents, beamList, nodes, velocity, k + 1)
addNewFallingElements(collisionEvents, beamList, nodes, velocity) ==
    addNewFallingElementsFrom(collisionEvents, beamList, nodes, velocity, 1)

\* |v| > 0.1 m/s for a velocity component
Moving(c) == Abs(c) * 25 > 1000

StillActive(element) ==
    \/ ~element.isOnGround
    \/ \E i \in 1..3 : Moving(element.velocity[i])

RECURSIVE CollisionsOfAll(_, _, _)
CollisionsOfAll(updated, allElements, i) ==
    IF i > Len(updated) THEN <<>>
    ELSE checkCollisions(updated[i], allElements)
         \o CollisionsOfAll(updated, allElements, i + 1)

\* checkImpactDamage: the indices of the beams it returns as broken, with
\* damageLevel 1.0.  impactThreshold = 1000 J = 320000000 units of impact
\* energy, the distance 3.0 m = 3000 mm; distances are taken in whole mm.
checkImpactDamage(element, beamList, nodes) ==
    IF element.impactEnergy > 320000000
    THEN {i \in 1..Len(beamList) :
            /\ ~beamList[i].isBroken
            /\ NodesResolve(beamList[i], nodes)
            /\ LET beamCenter == CenterPosition(beamList[i], nodes)
                   mm(c) == TruncDiv(element.currentPosition[c] - beamCenter[c], 25)
               IN  /\ \A c \in 1..3 : Abs(mm(c)) < 3000
                   /\ mm(1) * mm(1) + mm(2) * mm(2) + mm(3) * mm(3) < 3000 * 3000
            /\ element.impactEnergy > 320000000 * 2}
    ELSE {}

\* The log that starts again with the collisions of the tick
AppendCollisionsToEmptyLog(collisionEvents, collisions) == collisions

\* newCollisionEvents: [...simulation.collisionEvents] and the collisions of
\* the tick pushed onto it
AppendCollisions(collisionEvents, collisions) == collisionEvents \o collisions

\* fallingElements.map(updateFallingElement), from element i on
UpdatedElements[old \in Seq(FallingElement), i \in Nat] ==
    IF i > Len(old) THEN <<>>
    ELSE <<updateFallingElement(old[i])>> \o UpdatedElements[old, i + 1]

\* The collisions of the updated elements against the elements before the
\* update, the elements added for them, and isActive
CollectCollisions[simulation \in CollapseSimulation, updated \in Seq(FallingElement), beamList \in Seq(StructuralBeam), nodes \in Seq(StructuralNode), velocity \in Triplet] ==
    LET newCollisionEvents ==
            Take(AppendCollisions(simulation.collisionEvents,
                     CollisionsOfAll(updated, simulation.fallingElements, 1)),
                 MaxEvents)
        updatedFallingElements ==
            Take(updated \o addNewFallingElements(newCollisionEvents, beamList,
                                                  nodes, velocity),
                 Max(MaxBodies, Len(updated)))
    IN  [fallingElements |-> updatedFallingElements,
         collisionEvents |-> newCollisionEvents,
         isActive |-> \E i \in 1..Len(updatedFallingElements) :
                          StillActive(updatedFallingElements[i])]

\* updatedFallingElements of updateCollapseSimulation for an active
\* simulation: the updated elements and the elements added for the collision
\* events, all of them
updatedFallingElements(simulation, beamList, nodes, velocity) ==
    LET updated == UpdatedElements[simulation.fallingElements, 1]
    IN  updated \o addNewFallingElements(
                       AppendCollisions(simulation.collisionEvents,
                           CollisionsOfAll(updated, simulation.fallingElements, 1)),
                       beamList, nodes, velocity)

\* updateCollapseSimulation that keeps only the bodies still in the air
updateCollapseSimulationDroppingSettled(simulation, beamList, nodes, velocity) ==
    IF ~simulation.isActive THEN simulation
    ELSE LET updated == SelectSeq(UpdatedElements[simulation.fallingElements, 1],
                                  LAMBDA e : ~e.isOnGround)
         IN  [fallingElements |-> updated,
              collisionEvents |-> simulation.collisionEvents,
              isActive |-> Len(updated) > 0]

\* updateCollapseSimulation. It calls checkImpactDamage for every updated
\* element and does not use what it returns, so the call leaves no trace here. velocity is the random velocity of
\* the bodies added by addNewFallingElements.
updateCollapseSimulation(simulation, beamList, nodes, velocity) ==
    IF ~simulation.isActive THEN simulation
    ELSE CollectCollisions[simulation, UpdatedElements[simulation.fallingElements, 1],
                           beamList, nodes, velocity]

----------------------------------------------------------------------------
(* StructuralAnalysisService.performFEMAnalysis: the stiffness assembly *)

\* nodeIndexMap[id]: the index of the node with that id, 0 when undefined
NodeIndex(nodes, id) == FindNode(nodes, id)

\* A beam that the assembly loop does not skip: its material is known and
\* both its node ids are in nodeIndexMap
Assembled(beam, nodes) ==
    /\ HasMaterial(beam.material)
    /\ NodeIndex(nodes, beam.nodeIds[1]) # 0
    /\ NodeIndex(nodes, beam.nodeIds[2]) # 0

\* ke_global of one beam as a function of (global DOF, global DOF).  With
\* d = nodeB - nodeA and length = |d|, the entry for axes a, b is
\* +-k * c[a] * c[b], k = E * area / length, c = d / length; in units of
\* E * area per node unit: E * area * d[a] * d[b] / length^3.
ElementStiffness(beam, nodes) ==
    LET A == NodeIndex(nodes, beam.nodeIds[1])
        B == NodeIndex(nodes, beam.nodeIds[2])
        d == [a \in 1..3 |-> nodes[B].position[a] - nodes[A].position[a]]
        length == Sqrt(d[1] * d[1] + d[2] * d[2] + d[3] * d[3])
        \* width * height / 10000 with width in 1/100, or 0.01 when width or
        \* height is missing: in 1/1000000
        area == IF beam.width # 0 /\ beam.height # 0
                THEN beam.width * beam.height ELSE 10000
        EA == MATERIALS[beam.material].elasticModulus * area
        kcc(a, b) == TruncDiv(EA * d[a] * d[b], length * length * length)
        node(dof) == ((dof - 1) \div 3) + 1
        axis(dof) == ((dof - 1) % 3) + 1
    IN  [dofs \in (1..3 * Len(nodes)) \X (1..3 * Len(nodes)) |->
            IF node(dofs[1]) \in {A, B} /\ node(dofs[2]) \in {A, B}
            THEN IF (node(dofs[1]) = A) = (node(dofs[2]) = A)
                 THEN kcc(axis(dofs[1]), axis(dofs[2]))
                 ELSE -kcc(axis(dofs[1]), axis(dofs[2]))
            ELSE 0]

\* The global matrix K after the assembly loop over beams[1..n]
RECURSIVE AssembleK(_, _, _)
AssembleK(nodes, beamList, n) ==
    IF n = 0 THEN [dofs \in (1..3 * Len(nodes)) \X (1..3 * Len(nodes)) |-> 0]
    ELSE LET K == AssembleK(nodes, beamList, n - 1)
         IN  IF Assembled(beamList[n], nodes)
             THEN LET ke == ElementStiffness(beamList[n], nodes)
                  IN  [dofs \in DOMAIN K |-> K[dofs] + ke[dofs]]
             ELSE K

GlobalStiffness(nodes, beamList) == AssembleK(nodes, beamList, Len(beamList))

\* The three global DOFs of the node with index i
NodeDOFs(i) == {3 * (i - 1) + a : a \in 1..3}

\* constrainedDOFs: the DOFs of every node with position[1] === 0
constrainedDOFs(nodes) ==
    UNION {NodeDOFs(i) : i \in {j \in 1..Len(nodes) : nodes[j].position[2] = 0}}

\* freeDOFs: the DOFs that are not in constrainedDOFs
freeDOFs(nodes) == (1..3 * Len(nodes)) \ constrainedDOFs(nodes)

\* Kff has a row of zeros: the LU decomposition of solve(Kff, Ff) finds a
\* zero pivot and solve throws
ZeroRow(K, free) == \E i \in free : \A j \in free : K[<<i, j>>] = 0

\* Displacements solve may return for the free vertical DOFs, in 1/1000 of a
\* node unit; the free horizontal DOFs get 0
Displacements == {0, -20}

\* What solve(Kff, Ff) can do (Ff is the weight mass * 9.81 of every free
\* node): throw, or return uf.  It throws when Kff has a zero row.
SolveOutcomes(K, free) ==
    {[threw |-> TRUE, u |-> 0]}
        \cup (IF ZeroRow(K, free) THEN {}
              ELSE {[threw |-> FALSE, u |-> u] : u \in Displacements})

\* The axial stress of one assembled beam for the displacements of the
\* outcome: |deltaL / length * E|, in 1/1000 MPa
RecoveredStress(beam, nodes, free, outcome) ==
    LET A == NodeIndex(nodes, beam.nodeIds[1])
        B == NodeIndex(nodes, beam.nodeIds[2])
        d == [a \in 1..3 |-> nodes[B].position[a] - nodes[A].position[a]]
        uy(i) == IF (3 * (i - 1) + 2) \in free THEN outcome.u ELSE 0
        deltaL == (uy(B) - uy(A)) * d[2]
    IN  TruncDiv(MATERIALS[beam.material].elasticModulus * Abs(deltaL),
                 d[1] * d[1] + d[2] * d[2] + d[3] * d[3])

RECURSIVE MaxRecoveredStress(_, _, _, _, _)
MaxRecoveredStress(beamList, nodes, free, outcome, n) ==
    IF n = 0 THEN 0
    ELSE Max(MaxRecoveredStress(beamList, nodes, free, outcome, n - 1),
             IF Assembled(beamList[n], nodes)
             THEN RecoveredStress(beamList[n], nodes, free, outcome) ELSE 0)

\* performFEMAnalysis whose solve is not inside a try block
performFEMAnalysisUncaught(nodes, beamList, outcome) ==
    IF freeDOFs(nodes) = {}
    THEN [maxDisplacement |-> 0, maxStress |-> 0, log |-> <<>>, threw |-> FALSE]
    ELSE IF outcome.threw
    THEN [maxDisplacement |-> 0, maxStress |-> 0, log |-> <<"solve">>,
          threw |-> TRUE]
    ELSE [maxDisplacement |-> Abs(outcome.u),
          maxStress |-> MaxRecoveredStress(beamList, nodes, freeDOFs(nodes),
                                           outcome, Len(beamList)),
          log |-> <<"solve">>, threw |-> FALSE]

\* performFEMAnalysis for the outcome of its call of solve.  log is what the
\* call did besides computing: "solve" when it called solve, "console.warn"
\* when it wrote a warning; threw tells an exception that leaves the call.
\* maxDisplacement is in 1/1000 of a node unit, maxStress in 1/1000 MPa.
performFEMAnalysis(nodes, beamList, outcome) ==
    IF freeDOFs(nodes) = {}
    THEN [maxDisplacement |-> 0, maxStress |-> 0, log |-> <<>>, threw |-> FALSE]
    ELSE IF outcome.threw
    THEN [maxDisplacement |-> 0, maxStress |-> 0,
          log |-> <<"solve", "console.warn">>, threw |-> FALSE]
    ELSE [maxDisplacement |-> Abs(outcome.u),
          maxStress |-> MaxRecoveredStress(beamList, nodes, freeDOFs(nodes),
                                           outcome, Len(beamList)),
          log |-> <<"solve">>, threw |-> FALSE]

\* calculateSafetyFactor: totalYieldStrength over the first n beams, the beams
\* of unknown material left out
RECURSIVE TotalYieldStrength(_, _)
TotalYieldStrength(beamList, n) ==
    IF n = 0 THEN 0
    ELSE TotalYieldStrength(beamList, n - 1)
         + (IF HasMaterial(beamList[n].material)
            THEN MATERIALS[beamList[n].material].yieldStrength * beamList[n].length
            ELSE 0)

\* calculateSafetyFactor: totalAppliedStress over the first n beams
RECURSIVE TotalAppliedStress(_, _, _)
TotalAppliedStress(beamList, maxStress, n) ==
    IF n = 0 THEN 0
    ELSE TotalAppliedStress(beamList, maxStress, n - 1)
         + (IF HasMaterial(beamList[n].material)
            THEN maxStress * beamList[n].length
            ELSE 0)

\* calculateSafetyFactor, in 1/100
calculateSafetyFactor(beamList, maxStress) ==
    LET totalYieldStrength == TotalYieldStrength(beamList, Len(beamList))
        totalAppliedStress == TotalAppliedStress(beamList, maxStress, Len(beamList))
    IN  IF totalAppliedStress = 0 THEN 200
        ELSE TruncDiv(totalYieldStrength * 100000, totalAppliedStress)

\* identifyCriticalElements: maxStress / yieldStrength > 0.8, at most three
identifyCriticalElements(beamList, maxStress) ==
    LET critical ==
            SelectSeq(beamList,
                LAMBDA b : /\ HasMaterial(b.material)
                           /\ maxStress > MATERIALS[b.material].yieldStrength * 800)
    IN  Take([i \in 1..Len(critical) |-> critical[i].id], 3)

\* generateRecommendations
generateRecommendations(beamList, safetyFactor, criticalElements) ==
    LET recommendations ==
            (IF safetyFactor < 150 THEN <<"factor de seguridad bajo">> ELSE <<>>)
            \o (IF Len(criticalElements) > 0
                THEN <<"reforzar elementos criticos">> ELSE <<>>)
            \o (IF Len(beamList) > 10 THEN <<"evaluar distribucion">> ELSE <<>>)
    IN  IF Len(recommendations) = 0 THEN <<"cumple">> ELSE recommendations

\* StructuralAnalysisService.analyzeStructure for the outcome of solve; an
\* exception of performFEMAnalysis leaves analyzeStructure too
analyzeStructure(model, outcome) ==
    LET femResults == performFEMAnalysis(model.nodes, model.beams, outcome)
        safetyFactor == calculateSafetyFactor(model.beams, femResults.maxStress)
        criticalElements == identifyCriticalElements(model.beams, femResults.maxStress)
    IN  [maxDisplacement |-> femResults.maxDisplacement,
         maxStress |-> femResults.maxStress,
         safetyFactor |-> IF femResults.threw THEN Undefined ELSE safetyFactor,
         criticalElements |-> IF femResults.threw THEN <<>> ELSE criticalElements,
         recommendations |->
             IF femResults.threw THEN <<>>
             ELSE generateRecommendations(model.beams, safetyFactor, criticalElements),
         log |-> femResults.log,
         threw |-> femResults.threw]

----------------------------------------------------------------------------
(* The store: state, initial state and actions *)

Node(id, position, type, mass) ==
    [id |-> id, position |-> position, type |-> type, mass |-> mass]

Beam(id, nodeIds, material, length, mass) ==
    [id |-> id, nodeIds |-> nodeIds, material |-> material,
     length |-> length, mass |-> mass, width |-> 15, height |-> 15,
     damageLevel |-> Undefined, fatigueFactor |-> Undefined,
     isBroken |-> FALSE, currentStress |-> Undefined]

\* A pillar below the ground and a column above it, as in the default
\* structure; ModelB carries a beam whose second node is not in the node set.
ModelNodes ==
    <<Node("P1", <<0, -47, 0>>, "support", 0),
      Node("F1", <<0, -45, 0>>, "support", 0),
      Node("F2", <<4, -45, 0>>, "support", 0),
      Node("N2", <<4, -44, 0>>, "joint", 100)>>

ModelA ==
    [nodes |-> ModelNodes,
     beams |-> <<Beam("PILAR", <<"P1", "F1">>, "concrete_C25", 2, 3),
                 Beam("COLUMN", <<"F2", "N2">>, "steel_S235", 7, 8)>>]

ModelB ==
    [nodes |-> ModelNodes,
     beams |-> <<Beam("COLUMN", <<"F2", "N2">>, "steel_S235", 7, 8),
                 Beam("LOOSE", <<"N2", "N9">>, "steel_S355", 10, 8)>>]

Models == {ModelA, ModelB}

Intensities == {0, 90}
Frequencies == {200}

\* Math.random() for the initial velocity of a body
InitialVelocities == {<<0, 0, 0>>, <<200, 80, -200>>}
\* Math.random() for the velocity of a body added by a collision
ExplosiveVelocities == {<<0, 0, 0>>, <<-300, 200, 300>>}

\* state.collapseSimulation is null (<<>>) or one CollapseSimulation (<<sim>>);
\* collapseTick is the interval of the collapse effect: none (<<>>) or the
\* state the effect's closure captured when it was set up.
NoSimulation == <<>>
NoInterval == <<>>
\* state.analysisResult is null (<<>>) or one StructuralAnalysis (<<analysis>>)
NoResult == <<>>
\* state.selectedElement is null (<<>>) or one element, told by its id (<<id>>)
NoElement == <<>>

beams == structuralModel.beams

HasBrokenElements(beamList) == \E i \in 1..Len(beamList) : beamList[i].isBroken

\* state.collapseSimulation?.isActive: 0 undefined, 1 false, 2 true
IsActiveDep(simulation) ==
    IF simulation = NoSimulation THEN 0
    ELSE IF simulation[1].isActive THEN 2 ELSE 1

\* The collapse tick effect after a render: it is set up again when one of its
\* dependencies [collapseSimulation?.isActive, structuralModel] changed, and
\* then captures the state of that render.
CollapseTickEffect(interval, oldSim, newSim, newModel, modelChanged) ==
    IF modelChanged \/ IsActiveDep(oldSim) # IsActiveDep(newSim)
    THEN IF IsActiveDep(newSim) = 2
         THEN <<[simulation |-> newSim[1], beams |-> newModel.beams,
                 nodes |-> newModel.nodes]>>
         ELSE NoInterval
    ELSE interval

\* The collapse start effect has work to do
StartPending == HasBrokenElements(beams) /\ collapseSimulation = NoSimulation
\* The collapse start effect without its else branch
NeverResetPending == FALSE
ResetPending == ~HasBrokenElements(beams) /\ collapseSimulation # NoSimulation
\* Effects of a render run before the next timer or input event
EffectPending == StartPending \/ ResetPending

Init ==
    /\ structuralModel \in Models
    /\ earthquakeConfig = [intensity |-> 90, frequency |-> 200]
    /\ isSimulating = FALSE
    /\ analysisResult = NoResult
    /\ selectedElement = NoElement
    /\ simulationResults = <<>>
    /\ collapseSimulation = NoSimulation
    /\ collapseTick = NoInterval
    /\ clock = 0

\* dispatch of a model action: the new beams, and the collapse tick effect
\* set up again for the new structuralModel
SetBeams(newBeams) ==
    /\ structuralModel' = [structuralModel EXCEPT !.beams = newBeams]
    /\ collapseTick' = CollapseTickEffect(collapseTick, collapseSimulation,
                           collapseSimulation,
                           [structuralModel EXCEPT !.beams = newBeams], TRUE)

SetEarthquakeConfig ==
    /\ ~EffectPending
    /\ \E i \in Intensities, f \in Frequencies :
          earthquakeConfig' = [intensity |-> i, frequency |-> f]
    /\ earthquakeConfig' # earthquakeConfig
    /\ UNCHANGED selectedElement
    /\ UNCHANGED <<analysisResult, structuralModel, isSimulating, simulationResults,
                   collapseSimulation, collapseTick, clock>>

StartSimulation ==
    /\ ~EffectPending
    /\ ~isSimulating
    /\ isSimulating' = TRUE
    /\ UNCHANGED selectedElement
    /\ UNCHANGED <<analysisResult, structuralModel, earthquakeConfig, simulationResults,
                   collapseSimulation, collapseTick, clock>>

StopSimulation ==
    /\ ~EffectPending
    /\ isSimulating
    /\ isSimulating' = FALSE
    /\ UNCHANGED selectedElement
    /\ UNCHANGED <<analysisResult, structuralModel, earthquakeConfig, simulationResults,
                   collapseSimulation, collapseTick, clock>>

\* simulateEarthquake: a result is told from the others by its timestamp
simulateEarthquake(model, config, timestamp) ==
    [timestamp |-> timestamp]

\* ADD_SIMULATION_RESULT that keeps the first ten results: slice(0, 10)
ADD_SIMULATION_RESULT_FIRST_TEN(results, result) ==
    LET all == Append(results, result)
    IN  IF Len(all) > 10 THEN SubSeq(all, 1, 10) ELSE all

\* ADD_SIMULATION_RESULT
ADD_SIMULATION_RESULT(results, result) ==
    LET all == Append(results, result)
    IN  IF Len(all) > 10 THEN SubSeq(all, Len(all) - 9, Len(all)) ELSE all

\* The 30 ms interval of the earthquake effect
EarthquakeTick ==
    /\ ~EffectPending
    /\ isSimulating
    /\ clock < MaxClock
    /\ clock' = clock + 1
    /\ simulationResults' = ADD_SIMULATION_RESULT(simulationResults,
           simulateEarthquake(structuralModel, earthquakeConfig, clock + 1))
    /\ IF TickChangesModel(beams, earthquakeConfig)
       THEN SetBeams(TickDispatches[beams, beams, earthquakeConfig, 1])
       ELSE UNCHANGED <<structuralModel, collapseTick>>
    /\ UNCHANGED selectedElement
    /\ UNCHANGED <<analysisResult, earthquakeConfig, isSimulating, collapseSimulation>>

\* resetStructuralDamage
ResetStructuralDamage ==
    /\ ~EffectPending
    /\ SetBeams(RESET_STRUCTURAL_DAMAGE(beams))
    /\ UNCHANGED selectedElement
    /\ UNCHANGED <<analysisResult, earthquakeConfig, isSimulating, simulationResults,
                   collapseSimulation, clock>>

\* updateBeamDamage called from outside the tick: an element forced to
\* broken with damage 1.0, or repaired
UpdateBeamDamage ==
    /\ ~EffectPending
    /\ \E i \in 1..Len(beams), payload \in {<<10000, TRUE>>, <<0, FALSE>>} :
          /\ <<OrZero(beams[i].damageLevel), beams[i].isBroken>> # payload
          /\ SetBeams(UPDATE_BEAM_DAMAGE(beams, beams[i].id, payload[1], payload[2]))
    /\ UNCHANGED selectedElement
    /\ UNCHANGED <<analysisResult, earthquakeConfig, isSimulating, simulationResults,
                   collapseSimulation, clock>>

\* The collapse start effect: INITIALIZE_COLLAPSE_SIMULATION when something
\* is broken and there is no simulation, RESET_COLLAPSE_SIMULATION when
\* nothing is broken and there is one
CollapseStartEffect ==
    /\ \/ /\ StartPending
          /\ \E velocityOf \in [1..Len(beams) -> InitialVelocities] :
                collapseSimulation' =
                    <<initializeCollapseSimulation(beams, structuralModel.nodes,
                                                   velocityOf)>>
       \/ /\ ResetPending
          /\ collapseSimulation' = NoSimulation
    /\ collapseTick' = CollapseTickEffect(collapseTick, collapseSimulation,
                           collapseSimulation', structuralModel, FALSE)
    /\ UNCHANGED selectedElement
    /\ UNCHANGED <<analysisResult, structuralModel, earthquakeConfig, isSimulating,
                   simulationResults, clock>>

\* The 16 ms interval of the collapse effect: it updates the simulation its
\* closure captured and dispatches UPDATE_COLLAPSE_SIMULATION
CollapseTick ==
    /\ ~EffectPending
    /\ collapseTick # NoInterval
    /\ \E velocity \in ExplosiveVelocities :
          collapseSimulation' =
              <<updateCollapseSimulation(collapseTick[1].simulation,
                    collapseTick[1].beams, collapseTick[1].nodes, velocity)>>
    /\ collapseTick' = CollapseTickEffect(collapseTick, collapseSimulation,
                           collapseSimulation', structuralModel, FALSE)
    /\ UNCHANGED selectedElement
    /\ UNCHANGED <<analysisResult, structuralModel, earthquakeConfig, isSimulating,
                   simulationResults, clock>>

Next ==
    \/ SetEarthquakeConfig
    \/ StartSimulation
    \/ StopSimulation
    \/ EarthquakeTick
    \/ ResetStructuralDamage
    \/ UpdateBeamDamage
    \/ CollapseStartEffect
    \/ CollapseTick

Spec == Init /\ [][Next]_vars

\* The timers and the effects are scheduled by the browser and by React:
\* an interval that is set fires, an effect that has work to do runs.
FairSpec ==
    /\ Init
    /\ [][Next]_vars
    /\ WF_vars(CollapseStartEffect)
    /\ WF_vars(CollapseTick)
    /\ WF_vars(EarthquakeTick)

----------------------------------------------------------------------------
(* CollapsePhysicsService on its own: updateCollapseSimulation called again *)
(* and again on its own result, from an initialized simulation             *)

\* The model with the beams in broken set to broken
Broken(model, broken) ==
    [model EXCEPT !.beams =
        [i \in 1..Len(model.beams) |->
            IF i \in broken
            THEN [model.beams[i] EXCEPT !.isBroken = TRUE, !.damageLevel = 10000]
            ELSE model.beams[i]]]

\* The vertical speed of a body that has fallen 2.4 m (the columns of the
\* default structure start 5 m above the ground): -8.5 m/s
FallVelocity == <<0, -3400, 0>>

\* The simulation late in the fall of its bodies: every body has
\* FallVelocity and started 2.4 m higher
LateInFall(simulation) ==
    [simulation EXCEPT !.fallingElements =
        [k \in 1..Len(simulation.fallingElements) |->
            [simulation.fallingElements[k] EXCEPT
                !.velocity = FallVelocity,
                !.originalPosition[2] = @ + 60000]]]

PhysicsInit ==
    /\ \E model \in Models, broken \in (SUBSET (1..2)) \ {{}} :
          structuralModel = Broken(model, broken)
    /\ \E velocityOf \in [1..2 -> InitialVelocities], late \in BOOLEAN :
          LET simulation ==
                  initializeCollapseSimulation(beams, structuralModel.nodes, velocityOf)
          IN  collapseSimulation =
                  <<IF late THEN LateInFall(simulation) ELSE simulation>>
    /\ earthquakeConfig = [intensity |-> 90, frequency |-> 200]
    /\ isSimulating = FALSE
    /\ analysisResult = NoResult
    /\ selectedElement = NoElement
    /\ simulationResults = <<>>
    /\ collapseTick = NoInterval
    /\ clock = 0

\* One call on the result of the previous one, while the simulation is
\* active; clock is the parity of the number of calls
PhysicsTick ==
    /\ collapseSimulation[1].isActive
    /\ \E velocity \in ExplosiveVelocities :
          collapseSimulation' =
              <<updateCollapseSimulation(collapseSimulation[1], beams,
                                         structuralModel.nodes, velocity)>>
    /\ clock' = 1 - clock
    /\ UNCHANGED selectedElement
    /\ UNCHANGED <<analysisResult, structuralModel, earthquakeConfig, isSimulating,
                   simulationResults, collapseTick>>

PhysicsNext == PhysicsTick

PhysicsSpec == PhysicsInit /\ [][PhysicsNext]_vars /\ WF_vars(PhysicsTick)

----------------------------------------------------------------------------
(* StructuralAnalysisService.analyzeStructure on models whose nodes are     *)
(* moved                                                                    *)

\* simulatorReducer UPDATE_NODE_POSITION
UPDATE_NODE_POSITION(model, nodeId, position) ==
    [model EXCEPT !.nodes =
        [i \in 1..Len(model.nodes) |->
            IF model.nodes[i].id = nodeId
            THEN [model.nodes[i] EXCEPT !.position = position]
            ELSE model.nodes[i]]]

\* One support on y = 0 and two joints above it
AnalysisNodes ==
    <<Node("S1", <<0, 0, 0>>, "support", 0),
      Node("J1", <<1, 2, 1>>, "joint", 100),
      Node("J2", <<2, 2, 0>>, "joint", 100)>>

\* ModelC has an element of a material that is not in MATERIALS, ModelD an
\* element whose second node is not in the node set, ModelE neither.
ModelC ==
    [nodes |-> AnalysisNodes,
     beams |-> <<Beam("COLUMN", <<"S1", "J1">>, "steel_S235", 2, 8),
                 Beam("BRACE", <<"S1", "J2">>, "timber_C24", 3, 8),
                 Beam("BEAM", <<"J1", "J2">>, "steel_S355", 1, 8)>>]

ModelD ==
    [nodes |-> AnalysisNodes,
     beams |-> <<Beam("COLUMN", <<"S1", "J1">>, "steel_S235", 2, 8),
                 Beam("BRACE", <<"S1", "J2">>, "steel_S235", 3, 8),
                 Beam("LOOSE", <<"J2", "N9">>, "steel_S355", 1, 8)>>]

ModelE ==
    [nodes |-> AnalysisNodes,
     beams |-> <<Beam("COLUMN", <<"S1", "J1">>, "steel_S235", 2, 8),
                 Beam("BRACE", <<"S1", "J2">>, "steel_S235", 3, 8),
                 Beam("BEAM", <<"J1", "J2">>, "steel_S355", 1, 8)>>]

AnalysisModels == {ModelC, ModelD, ModelE}

\* The heights a node is dragged to
NodeHeights == {0, 2}

AnalysisInit ==
    /\ structuralModel \in AnalysisModels
    /\ earthquakeConfig = [intensity |-> 90, frequency |-> 200]
    /\ isSimulating = FALSE
    /\ analysisResult = NoResult
    /\ selectedElement = NoElement
    /\ simulationResults = <<>>
    /\ collapseSimulation = NoSimulation
    /\ collapseTick = NoInterval
    /\ clock = 0

\* updateNodePosition: a node is moved up or down
UpdateNodePosition ==
    /\ \E i \in 1..Len(structuralModel.nodes), y \in NodeHeights :
          LET position == structuralModel.nodes[i].position
          IN  /\ y # position[2]
              /\ structuralModel' =
                     UPDATE_NODE_POSITION(structuralModel, structuralModel.nodes[i].id,
                                          <<position[1], y, position[3]>>)
    /\ UNCHANGED selectedElement
    /\ UNCHANGED <<earthquakeConfig, isSimulating, analysisResult,
                   simulationResults, collapseSimulation, collapseTick, clock>>

\* simulatorReducer UPDATE_BEAM_PROPERTIES with updates = { length }
UPDATE_BEAM_LENGTH(beamList, beamId, length) ==
    [i \in 1..Len(beamList) |->
        IF beamList[i].id = beamId
        THEN [beamList[i] EXCEPT !.length = length]
        ELSE beamList[i]]

\* newLength: the distance between the two end nodes of a beam whose nodes
\* resolve, in the unit of the node coordinates, rounded down
NewLength(beam, nodes) ==
    LET nodeA == nodes[FindNode(nodes, beam.nodeIds[1])].position
        nodeB == nodes[FindNode(nodes, beam.nodeIds[2])].position
    IN  Sqrt(DistanceSquared(nodeB, nodeA))

\* connectedBeams.forEach of updateNodePositionWithAdaptation, from beam k on:
\* the dispatches of UPDATE_BEAM_PROPERTIES applied to beamList. model is
\* state.structuralModel of the closure of the callback.
RECURSIVE AdaptLengths(_, _, _, _)
AdaptLengths(beamList, model, nodeId, k) ==
    IF k > Len(model.beams) THEN beamList
    ELSE LET beam == model.beams[k]
         IN  AdaptLengths(
                 IF /\ nodeId \in {beam.nodeIds[1], beam.nodeIds[2]}
                    /\ NodesResolve(beam, model.nodes)
                 THEN UPDATE_BEAM_LENGTH(beamList, beam.id, NewLength(beam, model.nodes))
                 ELSE beamList,
                 model, nodeId, k + 1)

\* updateNodePositionWithAdaptation: the node is moved up or down and the
\* lengths of the beams at the node are written
UpdateNodePositionWithAdaptation ==
    /\ \E i \in 1..Len(structuralModel.nodes), y \in NodeHeights :
          LET position == structuralModel.nodes[i].position
              nodeId == structuralModel.nodes[i].id
              moved == UPDATE_NODE_POSITION(structuralModel, nodeId,
                                            <<position[1], y, position[3]>>)
          IN  /\ y # position[2]
              /\ structuralModel' =
                     [moved EXCEPT !.beams =
                         AdaptLengths(moved.beams, structuralModel, nodeId, 1)]
    /\ UNCHANGED selectedElement
    /\ UNCHANGED <<earthquakeConfig, isSimulating, analysisResult,
                   simulationResults, collapseSimulation, collapseTick, clock>>

\* The hook's analyzeStructure: the timeout computes the analysis of the
\* model and dispatches SET_ANALYSIS_RESULT
AnalyzeStructure ==
    /\ \E outcome \in SolveOutcomes(
                          GlobalStiffness(structuralModel.nodes, beams),
                          freeDOFs(structuralModel.nodes)) :
          analysisResult' = <<analyzeStructure(structuralModel, outcome)>>
    /\ UNCHANGED selectedElement
    /\ UNCHANGED <<structuralModel, earthquakeConfig, isSimulating,
                   simulationResults, collapseSimulation, collapseTick, clock>>

AnalysisNext ==
    UpdateNodePosition \/ UpdateNodePositionWithAdaptation \/ AnalyzeStructure

AnalysisSpec == AnalysisInit /\ [][AnalysisNext]_vars

----------------------------------------------------------------------------
(* simulateEarthquake called again and again on one model and one           *)
(* configuration, every result added to the rolling history                *)

\* The model with one foundation block, as the default model has four
WithFoundations(model) ==
    [nodes |-> model.nodes, beams |-> model.beams, foundations |-> <<"DADO_1">>]

HistoryModels == {WithFoundations(ModelB), WithFoundations(ModelC)}

HistoryInit ==
    /\ structuralModel \in HistoryModels
    /\ \E i \in Intensities, f \in Frequencies :
          earthquakeConfig = [intensity |-> i, frequency |-> f]
    /\ isSimulating = FALSE
    /\ analysisResult = NoResult
    /\ selectedElement = NoElement
    /\ simulationResults = <<>>
    /\ collapseSimulation = NoSimulation
    /\ collapseTick = NoInterval
    /\ clock = 0

\* addSimulationResult(simulateEarthquake(model, config)); clock counts the
\* calls and is the timestamp of the result
AddSimulationResult ==
    /\ clock < MaxResults
    /\ clock' = clock + 1
    /\ \E random \in Randoms :
          simulationResults' =
              ADD_SIMULATION_RESULT(simulationResults,
                  SimulationResult(structuralModel, earthquakeConfig,
                                   clock + 1, random))
    /\ UNCHANGED selectedElement
    /\ UNCHANGED <<structuralModel, earthquakeConfig, isSimulating,
                   analysisResult, collapseSimulation, collapseTick>>

HistoryNext == AddSimulationResult

HistorySpec == HistoryInit /\ [][HistoryNext]_vars

----------------------------------------------------------------------------
(* The earthquake interval on models that carry damage already, over the    *)
(* range of the intensity and frequency sliders                             *)

\* A column, a brace at its top and a beam at the far end of the brace; the
\* brace and the beam are of a material that is not in MATERIALS
ChainNodes ==
    ModelNodes \o <<Node("N3", <<6, -44, 0>>, "joint", 100),
                    Node("N4", <<8, -44, 0>>, "joint", 100)>>

ModelChain ==
    [nodes |-> ChainNodes,
     beams |-> <<Beam("COLUMN", <<"F2", "N2">>, "steel_S235", 7, 8),
                 Beam("BRACE", <<"N2", "N3">>, "timber_C24", 2, 8),
                 Beam("BEAM", <<"N3", "N4">>, "timber_C24", 2, 8)>>]

DamageModels == {ModelA, ModelB, ModelChain}

\* intensity 0 .. 12, frequency 0.1 .. 50
DamageIntensities == {0, 10, 60, 90, 120}
DamageFrequencies == {1, 40, 500}
\* damageLevel of an element when the simulation starts: never written, or
\* 0.9 from updateBeamDamage(id, 0.9, false)
DamageLevels == {Undefined, 9000}

Damaged(model, levelOf) ==
    [model EXCEPT !.beams =
        [i \in 1..Len(model.beams) |->
            [model.beams[i] EXCEPT !.damageLevel = levelOf[i]]]]

DamageInit ==
    /\ \E model \in DamageModels :
          \E levelOf \in [1..Len(model.beams) -> DamageLevels] :
              structuralModel = Damaged(model, levelOf)
    /\ \E i \in DamageIntensities, f \in DamageFrequencies :
          earthquakeConfig = [intensity |-> i, frequency |-> f]
    /\ isSimulating = FALSE
    /\ analysisResult = NoResult
    /\ selectedElement = NoElement
    /\ simulationResults = <<>>
    /\ collapseSimulation = NoSimulation
    /\ collapseTick = NoInterval
    /\ clock = 0

DamageNext == StartSimulation \/ EarthquakeTick \/ CollapseStartEffect

DamageSpec == DamageInit /\ [][DamageNext]_vars

----------------------------------------------------------------------------
(* Selecting and deleting elements, with the collapse effects running *)

\* The ids of the elements of the models
ElementIds == {"PILAR", "COLUMN", "LOOSE"}

\* The beams of beamList whose id is not elementId, in their order
RECURSIVE WithoutElement(_, _)
WithoutElement(beamList, elementId) ==
    IF beamList = <<>> THEN <<>>
    ELSE IF Head(beamList).id = elementId
         THEN WithoutElement(Tail(beamList), elementId)
         ELSE <<Head(beamList)>> \o WithoutElement(Tail(beamList), elementId)

\* The nodes of nodes that are not in nodeIds, in their order
RECURSIVE WithoutNodes(_, _)
WithoutNodes(nodes, nodeIds) ==
    IF nodes = <<>> THEN <<>>
    ELSE IF Head(nodes).id \in nodeIds
         THEN WithoutNodes(Tail(nodes), nodeIds)
         ELSE <<Head(nodes)>> \o WithoutNodes(Tail(nodes), nodeIds)

\* DELETE_ELEMENT that takes the end nodes of the element with it
DELETE_ELEMENT_AND_NODES(model, selected, elementId) ==
    [structuralModel |->
         [model EXCEPT
             !.beams = WithoutElement(model.beams, elementId),
             !.nodes = WithoutNodes(model.nodes,
                 UNION {{model.beams[i].nodeIds[1], model.beams[i].nodeIds[2]} :
                        i \in {j \in 1..Len(model.beams) :
                                  model.beams[j].id = elementId}})],
     selectedElement |->
         IF selected # NoElement /\ selected[1] = elementId
         THEN NoElement ELSE selected]
\* simulatorReducer DELETE_ELEMENT: the structuralModel and the
\* selectedElement of the next state
DELETE_ELEMENT(model, selected, elementId) ==
    [structuralModel |->
         [model EXCEPT !.beams = WithoutElement(model.beams, elementId)],
     selectedElement |->
         IF selected # NoElement /\ selected[1] = elementId
         THEN NoElement ELSE selected]

\* dispatch of DELETE_ELEMENT, and the collapse tick effect set up again for
\* the new structuralModel
DeleteDispatch(elementId) ==
    LET next == DELETE_ELEMENT(structuralModel, selectedElement, elementId)
    IN  /\ structuralModel' = next.structuralModel
        /\ selectedElement' = next.selectedElement
        /\ collapseTick' = CollapseTickEffect(collapseTick, collapseSimulation,
                               collapseSimulation, next.structuralModel, TRUE)

\* selectElement: a click on an element of the scene, or on the background or
\* the deselect button (null)
SelectElement ==
    /\ ~EffectPending
    /\ \E element \in {NoElement} \cup {<<beams[i].id>> : i \in 1..Len(beams)} :
          /\ element # selectedElement
          /\ selectedElement' = element
    /\ UNCHANGED <<structuralModel, earthquakeConfig, isSimulating, analysisResult,
                   simulationResults, collapseSimulation, collapseTick, clock>>

\* handleKeyDown for the Delete or the Backspace key
KeyDown ==
    /\ ~EffectPending
    /\ IF selectedElement # NoElement /\ ~isSimulating
       THEN /\ DeleteDispatch(selectedElement[1])
            /\ UNCHANGED <<earthquakeConfig, isSimulating, analysisResult,
                           simulationResults, collapseSimulation, clock>>
       ELSE UNCHANGED vars

\* The hook's deleteElement called with any id
DeleteElement ==
    /\ ~EffectPending
    /\ \E elementId \in ElementIds : DeleteDispatch(elementId)
    /\ UNCHANGED <<earthquakeConfig, isSimulating, analysisResult,
                   simulationResults, collapseSimulation, clock>>

EditNext ==
    \/ SelectElement
    \/ KeyDown
    \/ DeleteElement
    \/ StartSimulation
    \/ StopSimulation
    \/ ResetStructuralDamage
    \/ UpdateBeamDamage
    \/ CollapseStartEffect
    \/ CollapseTick

\* An effect that has work to do runs, an interval that is set fires
EditSpec ==
    /\ Init
    /\ [][EditNext]_vars
    /\ WF_vars(CollapseStartEffect)
    /\ WF_vars(CollapseTick)

----------------------------------------------------------------------------
(* Properties *)

\* A step of the earthquake interval
IsEarthquakeTick == clock' # clock

fallingElements ==
    IF collapseSimulation = NoSimulation THEN <<>>
    ELSE collapseSimulation[1].fallingElements

BodiesOf(elements, id) == {k \in 1..Len(elements) : elements[k].elementId = id}

\* C1: an element that is broken is still broken after every earthquake
\* tick; only RESET_STRUCTURAL_DAMAGE (or another write from outside the
\* tick) takes isBroken back.
C1_BrokenStaysBroken ==
    [][IsEarthquakeTick =>
          /\ Len(beams') = Len(beams)
          /\ \A i \in 1..Len(beams) : beams[i].isBroken => beams'[i].isBroken]_vars

\* A broken element whose damage was raised again by a later tick
C1_Witness ==
    /\ clock >= 2
    /\ \E i \in 1..Len(beams) :
          /\ beams[i].isBroken
          /\ beams[i].currentStress = MATERIALS[beams[i].material].ultimateStrength * 1000
          /\ beams[i].damageLevel > 3000

\* C2: the stored damageLevel of every element never decreases in an
\* earthquake tick.
C2_DamageNonDecreasing ==
    [][IsEarthquakeTick =>
          \A i \in 1..Len(beams) :
              OrZero(beams'[i].damageLevel) >= OrZero(beams[i].damageLevel)]_vars

\* An element whose damage was accumulated by ticks: above zero, below 1.0
C2_Witness ==
    \E i \in 1..Len(beams) :
        /\ beams[i].damageLevel > 0
        /\ beams[i].damageLevel < 10000
        /\ beams[i].currentStress > 0

Untouched(b) ==
    [id |-> b.id, nodeIds |-> b.nodeIds, material |-> b.material,
     length |-> b.length, mass |-> b.mass, width |-> b.width, height |-> b.height]

\* C3: RESET_STRUCTURAL_DAMAGE leaves every element with damageLevel 0,
\* fatigueFactor 0, isBroken false and currentStress 0, and changes nothing
\* else of the model.
C3_ResetIsWholeModel ==
    [][ResetStructuralDamage =>
          /\ structuralModel'.nodes = structuralModel.nodes
          /\ Len(beams') = Len(beams)
          /\ \A i \in 1..Len(beams) :
                /\ beams'[i].damageLevel = 0
                /\ beams'[i].fatigueFactor = 0
                /\ beams'[i].isBroken = FALSE
                /\ beams'[i].currentStress = 0
                /\ Untouched(beams'[i]) = Untouched(beams[i])]_vars

\* The model right after a reset that followed earthquake ticks
C3_Witness ==
    /\ clock >= 1
    /\ \A i \in 1..Len(beams) :
          /\ beams[i].currentStress = 0
          /\ beams[i].damageLevel = 0
          /\ beams[i].fatigueFactor = 0
          /\ ~beams[i].isBroken

\* C4: initializeCollapseSimulation gives exactly one FallingBody to every
\* broken element whose two nodes resolve (with its id, not on the ground,
\* impact energy 0, mass = mass * length), none to any other element, and
\* isActive is true iff there is a body.
C4_OneBodyPerBrokenElement ==
    [][(collapseSimulation = NoSimulation /\ collapseSimulation' # NoSimulation) =>
          /\ \A i \in 1..Len(beams) :
                Cardinality(BodiesOf(fallingElements', beams[i].id)) =
                    IF beams[i].isBroken /\ NodesResolve(beams[i], structuralModel.nodes)
                    THEN 1 ELSE 0
          /\ \A k \in 1..Len(fallingElements') :
                LET body == fallingElements'[k]
                    b == FindBeam(beams, body.elementId)
                IN  /\ b # 0
                    /\ ~body.isOnGround
                    /\ body.impactEnergy = 0
                    /\ body.mass = beams[b].mass * beams[b].length
          /\ collapseSimulation'[1].isActive = (Len(fallingElements') > 0)]_vars

\* A fresh simulation with exactly one body, next to an element that is not
\* broken
C4_Witness ==
    /\ Len(fallingElements) = 1
    /\ fallingElements[1].currentPosition = fallingElements[1].originalPosition
    /\ ~fallingElements[1].isOnGround
    /\ \E i \in 1..Len(beams) :
          ~beams[i].isBroken /\ beams[i].id # fallingElements[1].elementId
    /\ \E i \in 1..Len(beams) :
          beams[i].isBroken /\ beams[i].id = fallingElements[1].elementId

\* The element id is broken and both its nodes are in the model
IsBrokenElement(id) ==
    \E i \in 1..Len(beams) :
        /\ beams[i].id = id
        /\ beams[i].isBroken
        /\ NodesResolve(beams[i], structuralModel.nodes)

HasBody(id) == BodiesOf(fallingElements, id) # {}

\* C5: every element that is broken (its nodes being in the model)
\* eventually has a FallingBody with its id in the collapse simulation,
\* also when it breaks after the simulation exists; at the latest it is
\* repaired first.
C5_BrokenElementGetsBody ==
    \A id \in ElementIds :
        IsBrokenElement(id) ~> (HasBody(id) \/ ~IsBrokenElement(id))

\* C6: no step takes a body out of fallingElements except the
\* RESET_COLLAPSE_SIMULATION of the collapse start effect; in particular
\* every collapse tick keeps every body.
C6_BodiesStayUntilReset ==
    [][\A id \in ElementIds :
          Cardinality(BodiesOf(fallingElements', id))
              < Cardinality(BodiesOf(fallingElements, id))
          => (ResetPending /\ collapseSimulation' = NoSimulation)]_vars

\* Two bodies after collapse ticks, one already on the ground and one
\* still in the air
C6_Witness ==
    /\ Len(fallingElements) >= 2
    /\ \E k \in 1..Len(fallingElements) : fallingElements[k].isOnGround
    /\ \E k \in 1..Len(fallingElements) :
          /\ ~fallingElements[k].isOnGround
          /\ fallingElements[k].currentPosition # fallingElements[k].originalPosition

\* C7: a body that is on the ground is at groundLevel with vertical
\* velocity 0, on every later tick.
C7_GroundedBodiesRest ==
    \A k \in 1..Len(fallingElements) :
        fallingElements[k].isOnGround =>
            /\ fallingElements[k].currentPosition[2] = GROUND_LEVEL
            /\ fallingElements[k].velocity[2] = 0

\* C8: repeated calls of updateCollapseSimulation on an initialized
\* simulation eventually give a simulation that is not active.
C8_SimulationSettles ==
    <>(collapseSimulation # NoSimulation /\ ~collapseSimulation[1].isActive)

\* C9: an element that is broken has damageLevel 1.0.
C9_BrokenHasFullDamage ==
    \A i \in 1..Len(beams) : beams[i].isBroken => beams[i].damageLevel = 10000

\* C10: the stiffness matrix assembled for a model is the one assembled for
\* the model without its broken elements.
C10_BrokenExcludedFromAssembly ==
    GlobalStiffness(structuralModel.nodes, beams) =
        GlobalStiffness(structuralModel.nodes,
                        SelectSeq(beams, LAMBDA b : ~b.isBroken))

\* The DOFs of the nodes that are marked as supports
SupportDOFs(nodes) ==
    UNION {NodeDOFs(i) : i \in {j \in 1..Len(nodes) : nodes[j].type = "support"}}

\* C11: the DOFs taken out of the system are exactly the DOFs of the nodes
\* with type = 'support', wherever the nodes are and after any
\* UPDATE_NODE_POSITION.
C11_SupportsAreExplicit ==
    constrainedDOFs(structuralModel.nodes) = SupportDOFs(structuralModel.nodes)

\* The analysis result of the step that is being taken
NewResult == analysisResult'[1]

ZeroResult(result) == result.maxDisplacement = 0 /\ result.maxStress = 0

\* C12: analyzeStructure never throws; with no free DOF it returns the
\* degenerate result without calling solve; when solve fails it returns the
\* zero result (maxDisplacement = 0, maxStress = 0) with a warning, inside a
\* complete analysis (safety factor, critical elements, recommendations).
C12_AnalysisNeverThrows ==
    [][AnalyzeStructure =>
          LET free == freeDOFs(structuralModel.nodes)
              K == GlobalStiffness(structuralModel.nodes, beams)
          IN  /\ analysisResult' # NoResult
              /\ ~NewResult.threw
              /\ free = {} => (NewResult.log = <<>> /\ ZeroResult(NewResult))
              /\ (free # {} /\ ZeroRow(K, free)) =>
                     /\ NewResult.log = <<"solve", "console.warn">>
                     /\ ZeroResult(NewResult)
              /\ (\E k \in 1..Len(NewResult.log) : NewResult.log[k] = "console.warn")
                     => ZeroResult(NewResult)
              /\ NewResult.safetyFactor # Undefined
              /\ Len(NewResult.recommendations) > 0
              /\ NewResult.maxStress = 0 =>
                     /\ NewResult.safetyFactor = 200
                     /\ NewResult.criticalElements = <<>>]_vars

\* An analysis of a model whose nodes were all moved to y = 0: no free DOF,
\* no solve
C12_Witness ==
    /\ freeDOFs(structuralModel.nodes) = {}
    /\ analysisResult # NoResult
    /\ analysisResult[1].log = <<>>
    /\ ZeroResult(analysisResult[1])
    /\ analysisResult[1].safetyFactor = 200

\* validateStructure, "Validar conexiones": the elements with a node id that
\* is not in the node set
DanglingElements(model) ==
    {i \in 1..Len(model.beams) : ~NodesResolve(model.beams[i], model.nodes)}

\* C13: a model with an element whose node id is not in the node set gets no
\* analysis result: the analysis is refused as a whole.
C13_DanglingElementRejected ==
    DanglingElements(structuralModel) # {} => analysisResult = NoResult

\* C14: an element of an unknown material is flagged: the analysis that
\* skipped it recorded a warning that names it.
C14_UnknownMaterialFlagged ==
    analysisResult # NoResult =>
        \A i \in 1..Len(beams) :
            ~HasMaterial(beams[i].material) =>
                \E k \in 1..Len(analysisResult[1].log) :
                    analysisResult[1].log[k] = beams[i].id

\* What one analysis tick produces, besides its timestamp
TickValues(result) ==
    [beamStresses |-> result.beamStresses,
     foundationReactions |-> result.foundationReactions,
     maxDisplacement |-> result.analysis.maxDisplacement,
     maxStress |-> result.analysis.maxStress,
     safetyFactor |-> result.analysis.safetyFactor]

\* C15: two runs of simulateEarthquake on the same model and configuration
\* return the same stresses, foundation reactions, maxDisplacement, maxStress
\* and safetyFactor.
C15_SameInputSameResult ==
    \A j, k \in 1..Len(simulationResults) :
        TickValues(simulationResults[j]) = TickValues(simulationResults[k])

\* C16: every ADD_SIMULATION_RESULT leaves at most ten results: the result
\* added is the last one, before it come the results that were there, in
\* their order, the oldest one dropped when there were ten.
C16_RollingHistory ==
    [][AddSimulationResult =>
          LET old == simulationResults
              new == simulationResults'
              dropped == Len(old) + 1 - Len(new)
          IN  /\ Len(new) = Min(Len(old) + 1, 10)
              /\ new[Len(new)].timestamp = clock'
              /\ \A k \in 1..(Len(new) - 1) : new[k] = old[k + dropped]]_vars

\* Twelve results were added: the history holds the third to the twelfth
C16_Witness ==
    /\ clock = 12
    /\ Len(simulationResults) = 10
    /\ \A k \in 1..10 : simulationResults[k].timestamp = k + 2

\* C17: when an earthquake tick breaks an element, every other element
\* that shares one of its end nodes has, in the model after the tick, its
\* damageLevel raised by the propagation increment (up to 1.0).
C17_NeighboursGetPropagationDamage ==
    [][IsEarthquakeTick =>
          \A i, j \in 1..Len(beams) :
              (/\ ~beams[i].isBroken
               /\ beams'[i].isBroken
               /\ Connected(beams[j], beams[i]))
              => OrZero(beams'[j].damageLevel) >=
                     Min(10000, PropagatedDamage(beams[j], earthquakeConfig.intensity))]_vars

collisionEvents ==
    IF collapseSimulation = NoSimulation THEN <<>>
    ELSE collapseSimulation[1].collisionEvents

\* C18: a body that emitted a CollisionEvent has hasCollided = true, and no
\* two events of the log are of the same body against the same neighbour.
C18_CollisionEventsNotDuplicated ==
    /\ \A e \in 1..Len(collisionEvents), k \in 1..Len(fallingElements) :
          fallingElements[k].elementId = collisionEvents[e].elementId
              => fallingElements[k].hasCollided
    /\ \A e, f \in 1..Len(collisionEvents) :
          (/\ e # f
           /\ collisionEvents[e].elementId = collisionEvents[f].elementId
           /\ collisionEvents[e].collidedWith = collisionEvents[f].collidedWith)
          => FALSE

\* C19: the elements that checkImpactDamage finds for a body (impact energy
\* above twice the threshold, centroid within 3.0 m, not yet broken) are
\* broken in the model, with damageLevel 1.0, and have a FallingBody.
C19_SecondaryBreakage ==
    \A k \in 1..Len(fallingElements) :
        \A i \in checkImpactDamage(fallingElements[k], beams, structuralModel.nodes) :
            /\ beams[i].isBroken
            /\ beams[i].damageLevel = 10000
            /\ HasBody(beams[i].id)

IsPrefix(s, t) == Len(s) <= Len(t) /\ SubSeq(t, 1, Len(s)) = s

updatedBeams == UpdatedBeams(beams, earthquakeConfig)

InUnitInterval(x) == OrZero(x) >= 0 /\ OrZero(x) <= 10000

\* C21: damageLevel and fatigueFactor of every element are within [0, 1]
\* (a field never written counts as 0), in the model of the store and in the
\* beams that simulateEarthquake updates in a tick, at every intensity.
C21_DamageWithinUnitInterval ==
    \A i \in 1..Len(beams) :
        /\ InUnitInterval(beams[i].damageLevel)
        /\ InUnitInterval(beams[i].fatigueFactor)
        /\ InUnitInterval(updatedBeams[i].damageLevel)
        /\ InUnitInterval(updatedBeams[i].fatigueFactor)

\* After a tick at intensity 12: an element whose damage the tick has raised
\* from 0.9 to 1.0, its next increment and its fatigue both above 1.0 before
\* the minimum is taken
C21_Witness ==
    /\ clock >= 1
    /\ earthquakeConfig.intensity = 120
    /\ \E i \in 1..Len(beams) :
          /\ beams[i].damageLevel = 10000
          /\ beams[i].currentStress > 0
          /\ updatedBeams[i].damageLevel = 10000
          /\ updatedBeams[i].fatigueFactor = 10000

\* C22: after every call of updateCollapseSimulation every component of the
\* velocity of every body is below the speed up to which the model follows a
\* body, whatever that speed is set to (MaxSpeed: 0.75 m/s).
C22_SpeedBounded ==
    [][\A k \in 1..Len(fallingElements') : \A c \in 1..3 :
          Abs(fallingElements'[k].velocity[c]) < MaxSpeed]_vars

\* C23: the simulation that the next collapse tick will update (the one in
\* the closure of the interval) is the simulation in the store, i.e. the one
\* the tick before it committed.
C23_TickConsumesLatestSnapshot ==
    collapseTick # NoInterval =>
        /\ collapseSimulation # NoSimulation
        /\ collapseTick[1].simulation = collapseSimulation[1]

\* C24: an earthquake tick stores a strictly larger damageLevel for every
\* element with damageLevel < 1 whose stress ratio is above 0.3.
C24_DamageAccumulatesEveryTick ==
    [][EarthquakeTick =>
          \A i \in 1..Len(beams) :
              (/\ HasMaterial(beams[i].material)
               /\ OrZero(beams[i].damageLevel) < 10000
               /\ StressRatio(calculateRealisticBeamStress(beams[i], earthquakeConfig),
                              MATERIALS[beams[i].material]) > 3000)
              => OrZero(beams'[i].damageLevel) > OrZero(beams[i].damageLevel)]_vars

\* The damage events that simulateEarthquake computes in a tick from the model
damageEvents ==
    simulateProgressiveCollapse(updatedBeams, earthquakeConfig.intensity, clock + 1)

SharesNode(a, b) ==
    {a.nodeIds[1], a.nodeIds[2]} \cap {b.nodeIds[1], b.nodeIds[2]} # {}

EventsFor(id) ==
    {k \in 1..Len(damageEvents) :
        /\ damageEvents[k].type = "progressive_collapse"
        /\ damageEvents[k].elementId = id}

\* C25: every progressive_collapse event of a tick is for an element that
\* shares an end node with another element that is broken in the beams of
\* that tick, its cause; an element that shares no node with a broken
\* element gets no event, however it is connected otherwise.
C25_PropagationIsBreadthOne ==
    /\ \A k \in 1..Len(damageEvents) :
          damageEvents[k].type = "progressive_collapse" =>
              \E i, j \in 1..Len(updatedBeams) :
                  /\ i # j
                  /\ updatedBeams[i].id = damageEvents[k].elementId
                  /\ updatedBeams[j].id = damageEvents[k].cause
                  /\ updatedBeams[j].isBroken
                  /\ SharesNode(updatedBeams[i], updatedBeams[j])
    /\ \A i \in 1..Len(updatedBeams) :
          (\A j \in 1..Len(updatedBeams) :
              (j # i /\ updatedBeams[j].isBroken)
                  => ~SharesNode(updatedBeams[i], updatedBeams[j]))
          => EventsFor(updatedBeams[i].id) = {}

\* After a tick on the chain COLUMN - BRACE - BEAM: COLUMN is broken, BRACE
\* has an event caused by COLUMN, and BEAM, which shares a node with BRACE
\* only, has none
C25_Witness ==
    /\ clock >= 1
    /\ Len(beams) = 3
    /\ updatedBeams[1].isBroken /\ ~updatedBeams[2].isBroken
    /\ \E k \in EventsFor(beams[2].id) : damageEvents[k].cause = beams[1].id
    /\ SharesNode(beams[3], beams[2]) /\ ~SharesNode(beams[3], beams[1])
    /\ EventsFor(beams[3].id) = {}

\* newVelocity of updateFallingElement for a body
NewVelocity(element) ==
    ApplyAirResistance[ApplyGravity(element.velocity),
                       Speed[ApplyGravity(element.velocity)], element.mass]

\* C26: a body not on the ground has impact energy 0; the call in which its
\* new y is at or below groundLevel puts it at groundLevel with
\* impactEnergy = 0.5 * mass * vy^2 of the new velocity, the horizontal
\* velocity times (1 - 0.6), vy = 0 and isOnGround = true; any other call
\* leaves a body in the air in the air with energy 0, and a body on the
\* ground on the ground with the energy it has.
C26_GroundContactOnce ==
    [][\A k \in 1..Len(fallingElements) :
          /\ k <= Len(fallingElements')
          /\ LET element == fallingElements[k]
                 updatedElement == fallingElements'[k]
                 newVelocity == NewVelocity(element)
                 contact == /\ ~element.isOnGround
                            /\ element.currentPosition[2] + newVelocity[2] <= GROUND_LEVEL
             IN  /\ ~element.isOnGround => element.impactEnergy = 0
                 /\ contact =>
                       /\ updatedElement.isOnGround
                       /\ updatedElement.currentPosition[2] = GROUND_LEVEL
                       /\ updatedElement.impactEnergy =
                              element.mass * newVelocity[2] * newVelocity[2]
                       /\ updatedElement.velocity =
                              <<TruncDiv(newVelocity[1] * 4, 10), 0,
                                TruncDiv(newVelocity[3] * 4, 10)>>
                 /\ (~element.isOnGround /\ ~contact) =>
                       /\ ~updatedElement.isOnGround
                       /\ updatedElement.impactEnergy = 0
                 /\ element.isOnGround =>
                       /\ updatedElement.isOnGround
                       /\ updatedElement.impactEnergy = element.impactEnergy]_vars

\* A body that met the ground with a horizontal velocity and has been
\* updated again since
C26_Witness ==
    \E k \in 1..Len(fallingElements) :
        /\ fallingElements[k].isOnGround
        /\ fallingElements[k].impactEnergy > 0
        /\ fallingElements[k].velocity[1] # 0
        /\ fallingElements[k].currentPosition[2] < GROUND_LEVEL

DistinctElementIds(elements) ==
    \A j, k \in 1..Len(elements) :
        j # k => elements[j].elementId # elements[k].elementId

\* C27: no two bodies of the collapse simulation have the same elementId,
\* in the store and in the fallingElements that the collapse tick computes
\* when it fires next.
C27_NoDuplicateBodies ==
    /\ DistinctElementIds(fallingElements)
    /\ (collapseTick # NoInterval /\ ~EffectPending) =>
          \A velocity \in ExplosiveVelocities :
              DistinctElementIds(
                  updatedFallingElements(collapseTick[1].simulation,
                      collapseTick[1].beams, collapseTick[1].nodes, velocity))

\* The ids of the nodes that a step moves
MovedNodes ==
    {structuralModel.nodes[i].id : i \in
        {j \in 1..Len(structuralModel.nodes) :
            structuralModel'.nodes[j].position # structuralModel.nodes[j].position}}

\* C30: after updateNodePositionWithAdaptation one node has moved, every
\* element at that node (its two nodes being in the model) has as length the
\* distance between the positions its end nodes have now, and every element
\* that is not at the node has the length it had.
C30_LengthsFollowNodes ==
    [][UpdateNodePositionWithAdaptation =>
          /\ Cardinality(MovedNodes) = 1
          /\ Len(beams') = Len(beams)
          /\ \A i \in 1..Len(beams) :
                IF MovedNodes \cap {beams[i].nodeIds[1], beams[i].nodeIds[2]} # {}
                THEN NodesResolve(beams[i], structuralModel.nodes) =>
                         beams'[i].length = NewLength(beams[i], structuralModel'.nodes)
                ELSE beams'[i].length = beams[i].length]_vars

\* C28: whenever an element is broken and there is no collapse simulation, a
\* simulation is eventually initialized; whenever no element is broken (after
\* a reset of the damage, a repair, or the deletion of the last broken
\* element) and there is a simulation, it is eventually reset to null; and
\* once the effect has run there is a simulation exactly when an element is
\* broken.
C28_SimulationOnlyWhileBroken ==
    /\ (HasBrokenElements(beams) /\ collapseSimulation = NoSimulation)
           ~> (collapseSimulation # NoSimulation)
    /\ (~HasBrokenElements(beams) /\ collapseSimulation # NoSimulation)
           ~> (collapseSimulation = NoSimulation)
    /\ [][(CollapseStartEffect \/ CollapseTick) =>
             (collapseSimulation' # NoSimulation <=> HasBrokenElements(beams'))]_vars

\* The last broken element was deleted: the element that is left is not
\* broken, and the simulation with the body of the deleted one is still there
C28_Witness ==
    /\ Len(beams) = 1
    /\ ~HasBrokenElements(beams)
    /\ collapseSimulation # NoSimulation
    /\ Len(fallingElements) > 0
    /\ \A k \in 1..Len(fallingElements) :
          fallingElements[k].elementId # beams[1].id

\* The beams of the model without the element elementId: the others, as they
\* were and in their order
KeptIndexes(elementId) == {i \in 1..Len(beams) : beams[i].id # elementId}

DeletedExactly(elementId) ==
    /\ \A j \in 1..Len(beams') : beams'[j].id # elementId
    /\ Len(beams') = Cardinality(KeptIndexes(elementId))
    /\ \A j \in 1..Len(beams') :
          beams'[j] = beams[CHOOSE i \in KeptIndexes(elementId) :
                               Cardinality({k \in KeptIndexes(elementId) : k <= i}) = j]
    /\ structuralModel'.nodes = structuralModel.nodes

\* C29: DELETE_ELEMENT(id) leaves no element with that id, every other
\* element and every node as it was, and selectedElement null if it was the
\* deleted element and as it was otherwise; the Delete or Backspace key
\* deletes only when an element is selected and no simulation is running, and
\* then the selected element.
C29_DeleteRemovesExactlyOne ==
    [][/\ \A elementId \in ElementIds :
             DeleteDispatch(elementId) =>
                 /\ DeletedExactly(elementId)
                 /\ selectedElement' = IF selectedElement = <<elementId>>
                                       THEN NoElement ELSE selectedElement
       /\ (KeyDown /\ structuralModel' # structuralModel) =>
                 /\ selectedElement # NoElement
                 /\ ~isSimulating
                 /\ DeletedExactly(selectedElement[1])
                 /\ selectedElement' = NoElement]_vars

\* One of the two elements was deleted while the other was selected
C29_Witness ==
    /\ Len(beams) = 1
    /\ selectedElement = <<beams[1].id>>
    /\ structuralModel.nodes = ModelNodes

====
